---------------------------- MODULE Spec2Model ----------------------------
(***************************************************************************)
(* A model of the CurvedArrow component of dynamic-svg-arrow               *)
(* (src/components/ui/curved-arrow.tsx): the anchor resolver               *)
(* (calculatePosition), the curve path generator (createCurvePath) and the *)
(* geometry update scheduler (updateCoordinates and the two effects that   *)
(* drive it).                                                              *)
(*                                                                         *)
(* Numbers.  The component computes with JavaScript numbers.  Here every   *)
(* length is an integer count of 1/Scale of a layout unit (fixed point),   *)
(* every factor is a fraction n/d, and a product is rounded to the nearest *)
(* 1/Scale.  Math.sin is only ever taken at multiples of pi/2 (the wave    *)
(* samples) and is tabulated with its mathematical value.                  *)
(***************************************************************************)
EXTENDS Integers, Sequences, FiniteSets, TLC

VARIABLES
    \* ---- anchor resolver, taken alone (SpecDock)
    dockIn,         \* the arguments of one calculatePosition call
    dockOut,        \* its result, or NoValue before the call
    \* ---- curve path generator, taken alone (SpecPath)
    pathIn,         \* coordinates and curve props of one render
    pathOut,        \* the memoised createCurvePath value, or NoValue
    \* ---- layer compositor, taken alone (SpecLayer)
    renderIn,       \* the props of one render that decide what each layer draws
    renderOut,      \* the two containers that render returns, or NoValue
    \* ---- arrowhead generator, taken alone (SpecHead)
    headIn,         \* the arguments of one createArrowHead call
    headOut,        \* the glyph it returns (as the `d` of a <path>), or NoValue
    \* ---- geometry update scheduler (Spec): one CurvedArrow instance
    phase,          \* "constructed" (rendered, effects not yet run), "mounted", "unmounted"
    elems,          \* startElement / endElement: "none" (prop not passed),
                    \* "null" (ref passed, .current null), "el" (resolves)
    props,          \* the props of the latest render that the scheduler reads
    layout,         \* the page layout the entities' rects are measured from
    coordinates,    \* the committed useState value, with the identity of the object
    isUpdating,     \* isUpdatingRef.current
    stack,          \* updateCoordinates activations past the guard, not yet at
                    \* `finally`; each is the closure (the props it was created with)
    subscribed,     \* NoValue, or the closure the connected observers/listeners call
    rafQueue,       \* callbacks passed to requestAnimationFrame, not yet run
    frameBatch,     \* callbacks of the animation frame being run
    frameRuns,      \* updateCoordinates bodies entered during that frame
    lastEvent       \* the handler that ran last

dockVars == <<dockIn, dockOut>>
pathVars == <<pathIn, pathOut>>
layerVars == <<renderIn, renderOut>>
headVars == <<headIn, headOut>>
schedVars == <<phase, elems, props, layout, coordinates, isUpdating, stack,
               subscribed, rafQueue, frameBatch, frameRuns, lastEvent>>
vars == <<dockVars, pathVars, layerVars, headVars, schedVars>>

NoValue == [none |-> TRUE]

(***************************************************************************)
(* Fixed-point arithmetic                                                  *)
(***************************************************************************)
Scale == 10 * 100                        \* model ticks per layout unit

Abs(a) == IF a < 0 THEN -a ELSE a
Min(a, b) == IF a < b THEN a ELSE b
Max(a, b) == IF a > b THEN a ELSE b

\* a * n / d, rounded to the nearest tick (d > 0)
Times(a, n, d) == ((2 * a * n) + d) \div (2 * d)

RECURSIVE Isqrt(_)
Isqrt(n) ==
    IF n < 2 THEN n
    ELSE LET s == 2 * Isqrt(n \div 4)
         IN  IF (s + 1) * (s + 1) <= n THEN s + 1 ELSE s

\* Math.hypot(dx, dy), to 1/100 of a unit (the squares are taken on ticks/10
\* so that they stay inside TLC's integers).
Hypot(dx, dy) == 10 * Isqrt((dx \div 10) * (dx \div 10) + (dy \div 10) * (dy \div 10))

\* Math.sin(i * pi / 2)
SinQuarter(i) == CASE i % 4 = 0 -> 0
                   [] i % 4 = 1 -> 1
                   [] i % 4 = 2 -> 0
                   [] i % 4 = 3 -> -1

(***************************************************************************)
(* Anchor resolver: calculatePosition                                      *)
(***************************************************************************)
DockPositions ==
    { "top", "bottom", "left", "right", "center",
      "top-left", "top-right", "bottom-left", "bottom-right",
      "top-center", "bottom-center", "left-center", "right-center",
      "middle-left", "middle-right", "middle-top", "middle-bottom",
      "center-left", "center-right", "center-top", "center-bottom" }

\* const padding = 5
padding == 5 * Scale

\* rect and containerRect are getBoundingClientRect() values (viewport
\* coordinates); containerRect is NoValue when containerRef.current is null.
calculatePosition(rect, containerRect, position) ==
    IF containerRect = NoValue THEN [x |-> 0, y |-> 0]
    ELSE
    LET relativeX == rect.left - containerRect.left
        relativeY == rect.top - containerRect.top
        halfW == Times(rect.width, 1, 2)
        halfH == Times(rect.height, 1, 2)
    IN  CASE position \in {"top", "top-center"} ->
               [x |-> relativeX + halfW, y |-> relativeY - padding]
          [] position \in {"bottom", "bottom-center"} ->
               [x |-> relativeX + halfW, y |-> relativeY + rect.height + padding]
          [] position \in {"left", "left-center"} ->
               [x |-> relativeX - padding, y |-> relativeY + halfH]
          [] position \in {"right", "right-center"} ->
               [x |-> relativeX + rect.width + padding, y |-> relativeY + halfH]
          [] position = "center" ->
               [x |-> relativeX + halfW, y |-> relativeY + halfH]
          [] position = "top-left" ->
               [x |-> relativeX, y |-> relativeY]
          [] position = "top-right" ->
               [x |-> relativeX + rect.width, y |-> relativeY]
          [] position = "bottom-left" ->
               [x |-> relativeX, y |-> relativeY + rect.height]
          [] position = "bottom-right" ->
               [x |-> relativeX + rect.width, y |-> relativeY + rect.height]
          [] position \in {"middle-left", "center-left"} ->
               [x |-> relativeX, y |-> relativeY + halfH]
          [] position \in {"middle-right", "center-right"} ->
               [x |-> relativeX + rect.width, y |-> relativeY + halfH]
          [] position \in {"middle-top", "center-top"} ->
               [x |-> relativeX + halfW, y |-> relativeY]
          [] position \in {"middle-bottom", "center-bottom"} ->
               [x |-> relativeX + halfW, y |-> relativeY + rect.height]
          [] OTHER ->
               [x |-> relativeX + halfW, y |-> relativeY + halfH]


(***************************************************************************)
(* Curve path generator: createCurvePath                                   *)
(*                                                                         *)
(* A path string is modelled as the sequence of its commands, each with    *)
(* its numbers in the order the template literal writes them.              *)
(***************************************************************************)
Seg(c, a) == [cmd |-> c, args |-> a]

\* effectiveDirection with the dominant-axis test turned round
effectiveDirectionSwapped(dx, dy, curveDirection) ==
    IF curveDirection = "auto"
    THEN IF Abs(dx) < Abs(dy)
         THEN (IF dy > 0 THEN "up" ELSE "down")
         ELSE (IF dx > 0 THEN "left" ELSE "right")
    ELSE curveDirection

\* Directional bias. "auto" chooses a dominant axis based on deltas.
effectiveDirection(dx, dy, curveDirection) ==
    IF curveDirection = "auto"
    THEN IF Abs(dx) > Abs(dy)
         THEN (IF dy > 0 THEN "up" ELSE "down")
         ELSE (IF dx > 0 THEN "left" ELSE "right")
    ELSE curveDirection

\* baseOffset without the cap
baseOffsetUncapped(distance, curveIntensity) ==
    Times(distance, curveIntensity, 1000)

\* Math.min(distance * curveIntensity, 150); curveIntensity in thousandths
baseOffset(distance, curveIntensity) ==
    Min(Times(distance, curveIntensity, 1000), 150 * Scale)

\* switch (effectiveDirection): the offset vector
offsetVector(dir, base) ==
    CASE dir = "up"    -> [x |-> 0, y |-> -base]
      [] dir = "down"  -> [x |-> 0, y |-> base]
      [] dir = "left"  -> [x |-> -base, y |-> 0]
      [] dir = "right" -> [x |-> base, y |-> 0]
      [] OTHER         -> [x |-> 0, y |-> 0]

\* case "smooth" with the whole offset on the control points
smoothCurveFullOffset(sx, sy, ex, ey, dx, dy, offsetX, offsetY) ==
    LET c1x == sx + Times(dx, 3, 10) + offsetX
        c1y == sy + Times(dy, 3, 10) + offsetY
        c2x == ex - Times(dx, 3, 10) + offsetX
        c2y == ey - Times(dy, 3, 10) + offsetY
    IN  [pathString |-> << Seg("M", <<sx, sy>>), Seg("C", <<c1x, c1y, c2x, c2y, ex, ey>>) >>,
         control2X |-> c2x, control2Y |-> c2y]

\* case "smooth"
smoothCurve(sx, sy, ex, ey, dx, dy, offsetX, offsetY) ==
    LET c1x == sx + Times(dx, 3, 10) + Times(offsetX, 1, 2)
        c1y == sy + Times(dy, 3, 10) + Times(offsetY, 1, 2)
        c2x == ex - Times(dx, 3, 10) + Times(offsetX, 1, 2)
        c2y == ey - Times(dy, 3, 10) + Times(offsetY, 1, 2)
    IN  [pathString |-> << Seg("M", <<sx, sy>>), Seg("C", <<c1x, c1y, c2x, c2y, ex, ey>>) >>,
         control2X |-> c2x, control2Y |-> c2y]

\* the default case with the offset and the pull factors left out
defaultCurveStraight(sx, sy, ex, ey, dx, dy, offsetX, offsetY) ==
    [pathString |-> << Seg("M", <<sx, sy>>), Seg("C", <<sx, sy, ex, ey, ex, ey>>) >>,
     control2X |-> ex, control2Y |-> ey]

\* default: "similar to smooth with mild bias in the chosen direction"
defaultCurve(sx, sy, ex, ey, dx, dy, offsetX, offsetY) ==
    LET c1x == sx + Times(dx, 3, 10) + Times(offsetX, 1, 2)
        c1y == sy + Times(dy, 3, 10) + Times(offsetY, 1, 2)
        c2x == ex - Times(dx, 3, 10) + Times(offsetX, 1, 2)
        c2y == ey - Times(dy, 3, 10) + Times(offsetY, 1, 2)
    IN  [pathString |-> << Seg("M", <<sx, sy>>), Seg("C", <<c1x, c1y, c2x, c2y, ex, ey>>) >>,
         control2X |-> c2x, control2Y |-> c2y]

dramaticCurve(sx, sy, ex, ey, dx, dy, offsetX, offsetY) ==
    LET c1x == sx + Times(dx, 1, 10) + Times(offsetX, 3, 2)
        c1y == sy + Times(dy, 1, 10) + Times(offsetY, 3, 2)
        c2x == ex - Times(dx, 1, 10) + Times(offsetX, 3, 2)
        c2y == ey - Times(dy, 1, 10) + Times(offsetY, 3, 2)
    IN  [pathString |-> << Seg("M", <<sx, sy>>), Seg("C", <<c1x, c1y, c2x, c2y, ex, ey>>) >>,
         control2X |-> c2x, control2Y |-> c2y]

sCurve(sx, sy, ex, ey, dx, dy, offsetX, offsetY) ==
    LET c1x == sx + Times(dx, 1, 4) + Times(offsetX, 4, 5)
        c1y == sy + Times(dy, 1, 4) + Times(offsetY, 4, 5)
        c2x == ex - Times(dx, 1, 4) - Times(offsetX, 4, 5)
        c2y == ey - Times(dy, 1, 4) - Times(offsetY, 4, 5)
    IN  [pathString |-> << Seg("M", <<sx, sy>>), Seg("C", <<c1x, c1y, c2x, c2y, ex, ey>>) >>,
         control2X |-> c2x, control2Y |-> c2y]

\* the sample of the wave at i / segments: x, and y with its sine displacement
waveSample(sx, sy, dx, dy, base, i) ==
    [x |-> sx + Times(dx, i, 8),
     y |-> sy + Times(dy, i, 8) + SinQuarter(i) * Times(base, 3, 10)]

\* one loop iteration of case "wave": ` Q ${cpx} ${cpy} ${x} ${y}`
waveSegment(sx, sy, dx, dy, base, i) ==
    LET cur  == waveSample(sx, sy, dx, dy, base, i)
        prev == waveSample(sx, sy, dx, dy, base, i - 1)
    IN  Seg("Q", << Times(prev.x + cur.x, 1, 2), Times(prev.y + cur.y, 1, 2), cur.x, cur.y >>)

\* case "wave" with the 7th sample itself as control2
waveCurveSampleAnchor(sx, sy, ex, ey, dx, dy, base) ==
    [pathString |-> << Seg("M", <<sx, sy>>) >>
                    \o [i \in 1..8 |-> waveSegment(sx, sy, dx, dy, base, i)],
     control2X |-> waveSample(sx, sy, dx, dy, base, 7).x,
     control2Y |-> waveSample(sx, sy, dx, dy, base, 7).y]

waveCurve(sx, sy, ex, ey, dx, dy, base) ==
    [pathString |-> << Seg("M", <<sx, sy>>) >>
                    \o [i \in 1..8 |-> waveSegment(sx, sy, dx, dy, base, i)],
     control2X |-> sx + Times(dx, 875, 1000),
     control2Y |-> sy + Times(dy, 875, 1000)]

elegantCurve(sx, sy, ex, ey, dx, dy, offsetX, offsetY) ==
    LET midX == Times(sx + ex, 1, 2) + Times(offsetX, 4, 5)
        midY == Times(sy + ey, 1, 2) + Times(offsetY, 4, 5)
        c1x == sx + Times(dx, 1, 5) + Times(offsetX, 2, 5)
        c1y == sy + Times(dy, 1, 5) + Times(offsetY, 2, 5)
        c2x == ex - Times(dx, 1, 5) + Times(offsetX, 2, 5)
        c2y == ey - Times(dy, 1, 5) + Times(offsetY, 2, 5)
    IN  [pathString |-> << Seg("M", <<sx, sy>>),
                           Seg("C", <<c1x, c1y, midX, midY, midX, midY>>),
                           Seg("S", <<c2x, c2y, ex, ey>>) >>,
         control2X |-> c2x, control2Y |-> c2y]

\* one loop iteration of case "zigzag": ` L ${x} ${y}`
zigzagSegment(sx, sy, dx, dy, base, i) ==
    LET zz == IF i % 2 = 0 THEN Times(base, 2, 5) ELSE -Times(base, 2, 5)
    IN  Seg("L", << sx + Times(dx, i, 6), sy + Times(dy, i, 6) + zz >>)

\* zigzagCurve without the closing ` L ${ex} ${ey}`
zigzagCurveUnclosed(sx, sy, ex, ey, dx, dy, base) ==
    [pathString |-> << Seg("M", <<sx, sy>>) >>
                    \o [i \in 1..6 |-> zigzagSegment(sx, sy, dx, dy, base, i)],
     control2X |-> sx + Times(dx, 833, 1000),
     control2Y |-> sy + Times(dy, 833, 1000)]

zigzagCurve(sx, sy, ex, ey, dx, dy, base) ==
    [pathString |-> << Seg("M", <<sx, sy>>) >>
                    \o [i \in 1..6 |-> zigzagSegment(sx, sy, dx, dy, base, i)]
                    \o << Seg("L", <<ex, ey>>) >>,
     control2X |-> sx + Times(dx, 833, 1000),
     control2Y |-> sy + Times(dy, 833, 1000)]

\* const margin = 25: the obstacle box grown by the margin
expandedBox(o) ==
    [left   |-> o.x - 25 * Scale,
     right  |-> o.x + o.width + 25 * Scale,
     top    |-> o.y - 25 * Scale,
     bottom |-> o.y + o.height + 25 * Scale]

intersects(cx, cy, ex, ey, o) ==
    LET b == expandedBox(o)
    IN  cx < b.right /\ ex > b.left /\ Min(cy, ey) < b.bottom /\ Max(cy, ey) > b.top

\* wayPoint with the two clearances exchanged
wayPointSwapped(ex, ey, o) ==
    LET b == expandedBox(o)
        goRight == ex > o.x + Times(o.width, 1, 2)
        goUp == ey < o.y + Times(o.height, 1, 2)
    IN  [x |-> IF goRight THEN b.right + 10 * Scale ELSE b.left - 10 * Scale,
         y |-> IF goUp THEN b.top - 20 * Scale ELSE b.bottom + 20 * Scale]

wayPoint(ex, ey, o) ==
    LET b == expandedBox(o)
        goRight == ex > o.x + Times(o.width, 1, 2)
        goUp == ey < o.y + Times(o.height, 1, 2)
    IN  [x |-> IF goRight THEN b.right + 20 * Scale ELSE b.left - 20 * Scale,
         y |-> IF goUp THEN b.top - 10 * Scale ELSE b.bottom + 10 * Scale]

\* obs.forEach(...): the waypoints appended from obstacle i on, the running
\* point being (cx, cy); yields the segments and the last running point
RECURSIVE routeFrom(_, _, _, _, _, _)
routeFrom(obs, i, cx, cy, ex, ey) ==
    IF i > Len(obs) THEN [segs |-> << >>, cx |-> cx, cy |-> cy]
    ELSE IF intersects(cx, cy, ex, ey, obs[i])
         THEN LET w == wayPoint(ex, ey, obs[i])
                  rest == routeFrom(obs, i + 1, w.x, w.y, ex, ey)
              IN  [rest EXCEPT !.segs = << Seg("L", <<w.x, w.y>>) >> \o @]
         ELSE routeFrom(obs, i + 1, cx, cy, ex, ey)

\* the fallback with the pull factors at one half
fallbackCubicHalf(sx, sy, ex, ey, dx, dy) ==
    LET c1x == sx + Times(dx, 1, 2)
        c1y == sy + Times(dy, 1, 2)
        c2x == ex - Times(dx, 1, 2)
        c2y == ey - Times(dy, 1, 2)
    IN  [pathString |-> << Seg("M", <<sx, sy>>), Seg("C", <<c1x, c1y, c2x, c2y, ex, ey>>) >>,
         control2X |-> c2x, control2Y |-> c2y]

\* "Fallback to a smooth cubic if no obstacles."
fallbackCubic(sx, sy, ex, ey, dx, dy) ==
    LET c1x == sx + Times(dx, 3, 10)
        c1y == sy + Times(dy, 3, 10)
        c2x == ex - Times(dx, 3, 10)
        c2y == ey - Times(dy, 3, 10)
    IN  [pathString |-> << Seg("M", <<sx, sy>>), Seg("C", <<c1x, c1y, c2x, c2y, ex, ey>>) >>,
         control2X |-> c2x, control2Y |-> c2y]

\* case "around-obstacle" / "shortest-path"
obstacleCurve(sx, sy, ex, ey, dx, dy, obs) ==
    IF Len(obs) > 0
    THEN LET r == routeFrom(obs, 1, sx, sy, ex, ey)
         IN  [pathString |-> << Seg("M", <<sx, sy>>) >> \o r.segs \o << Seg("L", <<ex, ey>>) >>,
              control2X |-> r.cx, control2Y |-> r.cy]
    ELSE fallbackCubic(sx, sy, ex, ey, dx, dy)

createCurvePath(coords, curveType, curveDirection, curveIntensity) ==
    LET sx == coords.startX
        sy == coords.startY
        ex == coords.endX
        ey == coords.endY
        dx == ex - sx
        dy == ey - sy
        distance == Hypot(dx, dy)
        dir == effectiveDirection(dx, dy, curveDirection)
        base == baseOffset(distance, curveIntensity)
        off == offsetVector(dir, base)
    IN  CASE curveType = "smooth"   -> smoothCurve(sx, sy, ex, ey, dx, dy, off.x, off.y)
          [] curveType = "dramatic" -> dramaticCurve(sx, sy, ex, ey, dx, dy, off.x, off.y)
          [] curveType = "s-curve"  -> sCurve(sx, sy, ex, ey, dx, dy, off.x, off.y)
          [] curveType = "wave"     -> waveCurve(sx, sy, ex, ey, dx, dy, base)
          [] curveType = "elegant"  -> elegantCurve(sx, sy, ex, ey, dx, dy, off.x, off.y)
          [] curveType = "zigzag"   -> zigzagCurve(sx, sy, ex, ey, dx, dy, base)
          [] curveType \in {"around-obstacle", "shortest-path"} ->
               obstacleCurve(sx, sy, ex, ey, dx, dy, coords.obstacleRects)
          [] OTHER                  -> defaultCurve(sx, sy, ex, ey, dx, dy, off.x, off.y)

\* the points a path string starts and ends at (the first two numbers of its
\* first command, the last two numbers of its last command)
firstPoint(path) == [x |-> path[1].args[1], y |-> path[1].args[2]]
lastPoint(path) ==
    LET a == path[Len(path)].args
    IN  [x |-> a[Len(a) - 1], y |-> a[Len(a)]]


(***************************************************************************)
(* Bounds of the model                                                     *)
(***************************************************************************)
MaxRectGrid == 1        \* entity rect inputs: origins and extra sizes 0..MaxRectGrid
MaxPathGrid == 2        \* anchor inputs: x in 0..MaxPathGrid steps of 50 units
MaxObstacles == 2       \* longest obstacle list
MaxQueue == 2           \* requestAnimationFrame callbacks pending at once
MaxGrow == 2            \* the start entity's width grows by 0..MaxGrow half units
MaxObstacleRefs == 1    \* longest obstacleElements prop of the mounted instance

(***************************************************************************)
(* The anchor resolver taken alone: one calculatePosition call on inputs   *)
(* drawn from a grid of rects.                                             *)
(***************************************************************************)
DockRects ==
    { [left |-> l * 10 * Scale, top |-> t * 10 * Scale,
       width |-> (20 + w) * Scale, height |-> (10 + 30 * h) * Scale] :
         l \in 0..MaxRectGrid, t \in 0..MaxRectGrid,
         w \in 0..MaxRectGrid, h \in 0..MaxRectGrid }

ContainerRects ==
    { NoValue } \cup
    { [left |-> c * 3 * Scale, top |-> c * 7 * Scale] : c \in 0..MaxRectGrid }

DockInit ==
    /\ dockIn \in [rect : DockRects, containerRect : ContainerRects, position : DockPositions]
    /\ dockOut = NoValue
    /\ pathIn = NoValue
    /\ pathOut = NoValue
    /\ renderIn = NoValue
    /\ renderOut = NoValue
    /\ headIn = NoValue
    /\ headOut = NoValue
    /\ phase = "off"
    /\ elems = NoValue
    /\ props = NoValue
    /\ layout = NoValue
    /\ coordinates = NoValue
    /\ isUpdating = FALSE
    /\ stack = << >>
    /\ subscribed = NoValue
    /\ rafQueue = << >>
    /\ frameBatch = << >>
    /\ frameRuns = 0
    /\ lastEvent = "none"

ResolveDock ==
    /\ dockIn # NoValue
    /\ dockOut = NoValue
    /\ dockOut' = calculatePosition(dockIn.rect, dockIn.containerRect, dockIn.position)
    /\ UNCHANGED <<dockIn, pathVars, layerVars, headVars, schedVars>>

(***************************************************************************)
(* The curve path generator taken alone: one evaluation of the             *)
(* createCurvePath memo on committed coordinates and curve props drawn     *)
(* from bounded sets.                                                      *)
(***************************************************************************)
CurveTypes ==
    { "smooth", "dramatic", "s-curve", "wave", "elegant", "zigzag",
      "around-obstacle", "shortest-path", "spiral", "loop", "heart", "infinity" }

CurveDirections == { "up", "down", "left", "right", "auto" }

CurveIntensities == { 100, 400, 600, 2000 }     \* 0.1, 0.4, 0.6, 2.0

PathXs == { i * 50 * Scale : i \in 0..MaxPathGrid }
PathYs == { 0, 50 * Scale }

ObstacleChoices ==
    { [x |-> 40 * Scale, y |-> 40 * Scale, width |-> 20 * Scale, height |-> 20 * Scale],
      [x |-> 120 * Scale, y |-> 0, width |-> 10 * Scale, height |-> 10 * Scale] }

ObstacleLists == UNION { [1..n -> ObstacleChoices] : n \in 0..MaxObstacles }

PathInit ==
    /\ pathIn \in [coordinates : [startX : PathXs, startY : PathYs,
                                  endX : PathXs, endY : PathYs,
                                  obstacleRects : ObstacleLists],
                   curveType : CurveTypes,
                   curveDirection : CurveDirections,
                   curveIntensity : CurveIntensities]
    /\ pathOut = NoValue
    /\ dockIn = NoValue
    /\ dockOut = NoValue
    /\ renderIn = NoValue
    /\ renderOut = NoValue
    /\ headIn = NoValue
    /\ headOut = NoValue
    /\ phase = "off"
    /\ elems = NoValue
    /\ props = NoValue
    /\ layout = NoValue
    /\ coordinates = NoValue
    /\ isUpdating = FALSE
    /\ stack = << >>
    /\ subscribed = NoValue
    /\ rafQueue = << >>
    /\ frameBatch = << >>
    /\ frameRuns = 0
    /\ lastEvent = "none"

RenderPath ==
    /\ pathIn # NoValue
    /\ pathOut = NoValue
    /\ pathOut' = createCurvePath(pathIn.coordinates, pathIn.curveType,
                                  pathIn.curveDirection, pathIn.curveIntensity)
    /\ UNCHANGED <<pathIn, dockVars, layerVars, headVars, schedVars>>

SpecDock == DockInit /\ [][ResolveDock]_vars
SpecPath == PathInit /\ [][RenderPath]_vars


(***************************************************************************)
(* Claims about the curve path generator (checked under SpecPath)          *)
(***************************************************************************)
pathStart == [x |-> pathIn.coordinates.startX, y |-> pathIn.coordinates.startY]
pathEnd == [x |-> pathIn.coordinates.endX, y |-> pathIn.coordinates.endY]
pathDx == pathIn.coordinates.endX - pathIn.coordinates.startX
pathDy == pathIn.coordinates.endY - pathIn.coordinates.startY

C10_AutoDirection ==
    (pathOut # NoValue /\ pathIn.curveDirection = "auto") =>
        LET dir == effectiveDirection(pathDx, pathDy, pathIn.curveDirection)
        IN  /\ Abs(pathDx) > Abs(pathDy) => dir \in {"up", "down"}
            /\ ~(Abs(pathDx) > Abs(pathDy)) => dir \in {"left", "right"}
            /\ (Abs(pathDx) > Abs(pathDy) /\ pathDy = 0) => dir = "down"

\* a render with direction auto, a horizontal chord, resolved to down
C10_Witness ==
    /\ pathOut # NoValue
    /\ pathIn.curveDirection = "auto"
    /\ Abs(pathDx) > Abs(pathDy)
    /\ pathDy = 0
    /\ effectiveDirection(pathDx, pathDy, pathIn.curveDirection) = "down"

\* the curve styles createCurvePath has a case for
ImplementedCurveTypes ==
    { "smooth", "dramatic", "s-curve", "wave", "elegant", "zigzag",
      "around-obstacle", "shortest-path" }

RouterCurveTypes == { "around-obstacle", "shortest-path" }

pathDistance == Hypot(pathDx, pathDy)
pathBase == baseOffset(pathDistance, pathIn.curveIntensity)
pathOffset ==
    offsetVector(effectiveDirection(pathDx, pathDy, pathIn.curveDirection), pathBase)

\* C11: for every style and every (start, end, intensity) the base offset
\* that bows the curve is at most min(distance * intensity, 150), so it never
\* exceeds 150: neither the offset vector nor, in the smooth cubic, twice the
\* displacement of the second control point from the chord.
C11_OffsetCap ==
    pathOut # NoValue =>
        /\ pathBase <= Times(pathDistance, pathIn.curveIntensity, 1000)
        /\ pathBase <= 150 * Scale
        /\ Abs(pathOffset.x) + Abs(pathOffset.y) <= 150 * Scale
        /\ pathIn.curveType = "smooth" =>
              2 * ( Abs(pathOut.control2X - (pathEnd.x - Times(pathDx, 3, 10)))
                  + Abs(pathOut.control2Y - (pathEnd.y - Times(pathDy, 3, 10))) )
                <= 150 * Scale

\* a smooth curve whose distance * intensity is above 150, bowed by the cap
C11_Witness ==
    /\ pathOut # NoValue
    /\ pathIn.curveType = "smooth"
    /\ Times(pathDistance, pathIn.curveIntensity, 1000) > 150 * Scale
    /\ pathBase = 150 * Scale
    /\ Abs(pathOffset.x) + Abs(pathOffset.y) = 150 * Scale

\* C12: for every curve type that is not one of the eight implemented styles
\* (spiral, loop, heart, infinity) the generated path and control anchor are
\* the ones the smooth style produces for the same start, end, intensity and
\* direction.
C12_UnknownAsSmooth ==
    (pathOut # NoValue /\ pathIn.curveType \notin ImplementedCurveTypes) =>
        pathOut = createCurvePath(pathIn.coordinates, "smooth",
                                  pathIn.curveDirection, pathIn.curveIntensity)

\* a reserved curve type rendered between distinct anchors, bowed off the chord
C12_Witness ==
    /\ pathOut # NoValue
    /\ pathIn.curveType = "infinity"
    /\ pathStart # pathEnd
    /\ pathOffset # [x |-> 0, y |-> 0]
    /\ Len(pathOut.pathString) = 2
    /\ pathOut.pathString[2].cmd = "C"

\* C13: with zero obstacles around-obstacle and shortest-path both output a
\* single cubic from start to end with control points start + 0.3 (end - start)
\* and end - 0.3 (end - start), the second being the control anchor.
C13_NoObstacleFallback ==
    (/\ pathOut # NoValue
     /\ pathIn.curveType \in RouterCurveTypes
     /\ pathIn.coordinates.obstacleRects = << >>)
    => /\ pathOut.pathString =
            << Seg("M", <<pathStart.x, pathStart.y>>),
               Seg("C", << pathStart.x + Times(pathDx, 3, 10),
                           pathStart.y + Times(pathDy, 3, 10),
                           pathEnd.x - Times(pathDx, 3, 10),
                           pathEnd.y - Times(pathDy, 3, 10),
                           pathEnd.x, pathEnd.y >>) >>
       /\ pathOut.control2X = pathEnd.x - Times(pathDx, 3, 10)
       /\ pathOut.control2Y = pathEnd.y - Times(pathDy, 3, 10)

\* shortest-path rendered with no obstacle, between distinct anchors, with a
\* direction and intensity that would bow a smooth curve
C13_Witness ==
    /\ pathOut # NoValue
    /\ pathIn.curveType = "shortest-path"
    /\ pathIn.coordinates.obstacleRects = << >>
    /\ pathDx # 0 /\ pathDy # 0
    /\ pathOffset # [x |-> 0, y |-> 0]

\* the styles whose formulas use the direction offset or the base offset
OffsetCurveTypes == CurveTypes \ RouterCurveTypes

\* the same render with intensity 0: every point on the straight chord
pathFlat ==
    createCurvePath(pathIn.coordinates, pathIn.curveType, pathIn.curveDirection, 0)

pathDirection == effectiveDirection(pathDx, pathDy, pathIn.curveDirection)

\* C23: for every style that uses the offset, the offset perturbs only the
\* axis of the resolved direction: with up or down only y-coordinates of
\* control and sample points deviate from the straight chord, with left or
\* right only x-coordinates; this includes wave and zigzag.
C23_OffsetAxis ==
    (pathOut # NoValue /\ pathIn.curveType \in OffsetCurveTypes) =>
        /\ \A k \in 1..Len(pathOut.pathString) :
              \A j \in 1..Len(pathOut.pathString[k].args) :
                 LET moved == pathOut.pathString[k].args[j] # pathFlat.pathString[k].args[j]
                 IN  /\ (pathDirection \in {"up", "down"} /\ j % 2 = 1) => ~moved
                     /\ (pathDirection \in {"left", "right"} /\ j % 2 = 0) => ~moved
        /\ pathDirection \in {"up", "down"} => pathOut.control2X = pathFlat.control2X
        /\ pathDirection \in {"left", "right"} => pathOut.control2Y = pathFlat.control2Y

\* the path's commands after the initial `M`
pathSegments == Tail(pathOut.pathString)

\* C24 as stated: for the wave style the path has exactly 8 quadratic
\* segments and the control anchor is the 7th sample point of the wave, the
\* end point of the 7th segment including its sinusoidal displacement.
C24_WaveAnchorOnSample ==
    (pathOut # NoValue /\ pathIn.curveType = "wave") =>
        /\ Len(pathSegments) = 8
        /\ \A k \in 1..8 : pathSegments[k].cmd = "Q"
        /\ pathOut.control2X = pathSegments[7].args[3]
        /\ pathOut.control2Y = pathSegments[7].args[4]

\* C24 as amended: for the wave style the path has exactly 8 quadratic
\* segments and the control anchor is the point of the chord at 0.875 of the
\* way, start + 0.875 (end - start): the 7th sample without its sinusoidal
\* displacement.
C24_WaveAnchorOnChord ==
    (pathOut # NoValue /\ pathIn.curveType = "wave") =>
        /\ Len(pathSegments) = 8
        /\ \A k \in 1..8 : pathSegments[k].cmd = "Q"
        /\ pathOut.control2X = pathStart.x + Times(pathDx, 875, 1000)
        /\ pathOut.control2Y = pathStart.y + Times(pathDy, 875, 1000)

\* a wave with a displaced 7th sample: the control anchor is not on it
C24_Witness ==
    /\ pathOut # NoValue
    /\ pathIn.curveType = "wave"
    /\ pathBase > 0
    /\ pathStart # pathEnd
    /\ pathOut.control2Y # pathSegments[7].args[4]
    /\ pathOut.control2X = pathSegments[7].args[3]

\* C25: for the zigzag style the path consists of exactly 6 straight segments
\* from start to end, whose intermediate vertices alternate between
\* -0.4 x offset and +0.4 x offset displacement from the chord.
C25_ZigzagSixSegments ==
    (pathOut # NoValue /\ pathIn.curveType = "zigzag") =>
        /\ Len(pathSegments) = 6
        /\ \A k \in 1..Len(pathSegments) : pathSegments[k].cmd = "L"
        /\ \A k \in 1..(Len(pathSegments) - 1) :
              LET onChord == pathFlat.pathString[k + 1].args
                  vertex == pathSegments[k].args
                  zz == Times(pathBase, 2, 5)
              IN  /\ vertex[1] = onChord[1]
                  /\ vertex[2] - onChord[2] = IF k % 2 = 1 THEN -zz ELSE zz

\* C26: for the smooth style the path is a single cubic whose control points
\* are start + 0.3 (end - start) + 0.5 offsetVector and
\* end - 0.3 (end - start) + 0.5 offsetVector, for every input; start (0,0),
\* end (100,0), intensity 0.4, direction auto gives offset 40 and controls
\* (30,20) and (70,20).
C26_SmoothControls ==
    (pathOut # NoValue /\ pathIn.curveType = "smooth") =>
        /\ pathOut.pathString =
             << Seg("M", <<pathStart.x, pathStart.y>>),
                Seg("C", << pathStart.x + Times(pathDx, 3, 10) + Times(pathOffset.x, 1, 2),
                            pathStart.y + Times(pathDy, 3, 10) + Times(pathOffset.y, 1, 2),
                            pathEnd.x - Times(pathDx, 3, 10) + Times(pathOffset.x, 1, 2),
                            pathEnd.y - Times(pathDy, 3, 10) + Times(pathOffset.y, 1, 2),
                            pathEnd.x, pathEnd.y >>) >>
        /\ (/\ pathStart = [x |-> 0, y |-> 0]
            /\ pathEnd = [x |-> 100 * Scale, y |-> 0]
            /\ pathIn.curveIntensity = 400
            /\ pathIn.curveDirection = "auto")
           => /\ pathBase = 40 * Scale
              /\ pathSegments[1].args = << 30 * Scale, 20 * Scale, 70 * Scale, 20 * Scale,
                                           100 * Scale, 0 >>

\* the example of the claim, rendered
C26_Witness ==
    /\ pathOut # NoValue
    /\ pathIn.curveType = "smooth"
    /\ pathStart = [x |-> 0, y |-> 0]
    /\ pathEnd = [x |-> 100 * Scale, y |-> 0]
    /\ pathIn.curveIntensity = 400
    /\ pathIn.curveDirection = "auto"
    /\ pathOut.control2X = 70 * Scale
    /\ pathOut.control2Y = 20 * Scale

\* C29: for every style and every start # end (any intensity and direction)
\* the control anchor differs from the start anchor and from the end anchor,
\* so neither the start tangent vector nor the end tangent vector is zero.
C29_ControlAnchorApart ==
    (pathOut # NoValue /\ pathStart # pathEnd) =>
        /\ [x |-> pathOut.control2X, y |-> pathOut.control2Y] # pathStart
        /\ [x |-> pathOut.control2X, y |-> pathOut.control2Y] # pathEnd

(***************************************************************************)
(* Claims about the obstacle router (checked under SpecPath)               *)
(***************************************************************************)
pathObstacles == pathIn.coordinates.obstacleRects

\* a render of a routing style with a non-empty obstacle list
Routed ==
    /\ pathOut # NoValue
    /\ pathIn.curveType \in RouterCurveTypes
    /\ Len(pathObstacles) > 0

\* the waypoints of a routed path: its commands between `M` and the last `L`
wayPoints(path) == SubSeq(path, 2, Len(path) - 1)

\* the running point (cx, cy) when the pass arrives at obstacle i
runningPoint(i) ==
    routeFrom(SubSeq(pathObstacles, 1, i - 1), 1,
              pathStart.x, pathStart.y, pathEnd.x, pathEnd.y)

\* C14: when the obstacle list is non-empty but no obstacle's margin-expanded
\* box is intersected during the pass, the output is the same cubic path and
\* control anchor that is produced with zero obstacles.
C14_NoIntersectionFallback ==
    (Routed /\ wayPoints(pathOut.pathString) = << >>) =>
        pathOut = createCurvePath([pathIn.coordinates EXCEPT !.obstacleRects = << >>],
                                  pathIn.curveType, pathIn.curveDirection,
                                  pathIn.curveIntensity)

\* the x-range and the y-range spanned by (cx, cy) and (ex, ey) both overlap
\* the ranges of the obstacle's box grown by 25
rangesOverlap(cx, cy, ex, ey, o) ==
    /\ Min(cx, ex) < o.x + o.width + 25 * Scale
    /\ Max(cx, ex) > o.x - 25 * Scale
    /\ Min(cy, ey) < o.y + o.height + 25 * Scale
    /\ Max(cy, ey) > o.y - 25 * Scale

\* C15: for each obstacle, a waypoint is inserted if and only if the x-range
\* spanned by the running point and end overlaps the x-range of the box grown
\* by 25 and the y-range spanned by them overlaps its y-range, for every
\* direction of travel (also with end to the left of the running point).
C15_IntersectionTest ==
    Routed =>
        /\ \A i \in 1..Len(pathObstacles) :
              intersects(runningPoint(i).cx, runningPoint(i).cy,
                         pathEnd.x, pathEnd.y, pathObstacles[i])
              <=> rangesOverlap(runningPoint(i).cx, runningPoint(i).cy,
                                pathEnd.x, pathEnd.y, pathObstacles[i])
        /\ Len(wayPoints(pathOut.pathString)) =
              Cardinality({ i \in 1..Len(pathObstacles) :
                              rangesOverlap(runningPoint(i).cx, runningPoint(i).cy,
                                            pathEnd.x, pathEnd.y, pathObstacles[i]) })

\* the waypoint as claim C16 places it
C16_WayPoint(ex, ey, o) ==
    [x |-> IF ex > o.x + Times(o.width, 1, 2)
           THEN o.x + o.width + (25 + 20) * Scale
           ELSE o.x - (25 + 20) * Scale,
     y |-> IF ey < o.y + Times(o.height, 1, 2)
           THEN o.y - (25 + 10) * Scale
           ELSE o.y + o.height + (25 + 10) * Scale]

\* the waypoints claim C16 expects from obstacle i on, the running point being
\* (cx, cy); an obstacle is intersecting when the router's test says so
RECURSIVE C16_WayPoints(_, _, _, _, _, _)
C16_WayPoints(obs, i, cx, cy, ex, ey) ==
    IF i > Len(obs) THEN << >>
    ELSE IF intersects(cx, cy, ex, ey, obs[i])
         THEN LET w == C16_WayPoint(ex, ey, obs[i])
              IN  << w >> \o C16_WayPoints(obs, i + 1, w.x, w.y, ex, ey)
         ELSE C16_WayPoints(obs, i + 1, cx, cy, ex, ey)

\* C16: obstacles are visited once each in input order; every intersecting
\* obstacle contributes exactly one waypoint and every other obstacle none
\* (so waypoints <= obstacles); the waypoint is 20 beyond the expanded box's
\* right side if end.x is right of the obstacle centre, else 20 beyond its
\* left side, and 10 above the expanded top if end.y is above the centre,
\* else 10 below the expanded bottom; the running point then becomes that
\* waypoint for the following obstacles.
C16_WaypointRule ==
    Routed =>
        LET expected == C16_WayPoints(pathObstacles, 1, pathStart.x, pathStart.y,
                                      pathEnd.x, pathEnd.y)
            drawn == wayPoints(pathOut.pathString)
        IN  /\ Len(drawn) <= Len(pathObstacles)
            /\ Len(drawn) = Len(expected)
            /\ \A k \in 1..Len(drawn) :
                  drawn[k] = Seg("L", << expected[k].x, expected[k].y >>)

\* a path routed round two obstacles, the second met from the first waypoint
C16_Witness ==
    /\ Routed
    /\ Len(pathObstacles) = 2
    /\ pathObstacles[1] # pathObstacles[2]
    /\ Len(wayPoints(pathOut.pathString)) = 2
    /\ wayPoints(pathOut.pathString)[1] # wayPoints(pathOut.pathString)[2]

\* the values of t, as the fractions lo/den < t < hi/den with den > 0, at
\* which p + t (q - p) lies strictly between a and b
axisInterval(p, q, a, b) ==
    IF q > p THEN [lo |-> a - p, hi |-> b - p, den |-> q - p]
    ELSE IF q < p THEN [lo |-> p - b, hi |-> p - a, den |-> p - q]
    ELSE IF a < p /\ p < b THEN [lo |-> -1, hi |-> 2, den |-> 1]
    ELSE [lo |-> 1, hi |-> 0, den |-> 1]

\* the segment from (px, py) to (qx, qy) has a point inside rectangle o
\* (coordinates taken in tenths of a unit)
passesThrough(px, py, qx, qy, o) ==
    LET ix == axisInterval(px \div 100, qx \div 100,
                           o.x \div 100, (o.x + o.width) \div 100)
        iy == axisInterval(py \div 100, qy \div 100,
                           o.y \div 100, (o.y + o.height) \div 100)
    IN  /\ \A l \in {ix, iy} : \A h \in {ix, iy} : l.lo * h.den < h.hi * l.den
        /\ \A l \in {ix, iy} : l.lo < l.den
        /\ \A h \in {ix, iy} : h.hi > 0

\* the point lies outside the obstacle's box grown by 25
outsideExpanded(x, y, o) ==
    \/ x < o.x - 25 * Scale
    \/ x > o.x + o.width + 25 * Scale
    \/ y < o.y - 25 * Scale
    \/ y > o.y + o.height + 25 * Scale

\* C17: with exactly one obstacle, start and end both outside its
\* margin-expanded box and the start-to-end segment intersecting that box,
\* the routed polyline start -> waypoint -> end does not pass through the
\* obstacle's rectangle.
C17_SingleObstacleDetour ==
    (/\ Routed
     /\ Len(pathObstacles) = 1
     /\ outsideExpanded(pathStart.x, pathStart.y, pathObstacles[1])
     /\ outsideExpanded(pathEnd.x, pathEnd.y, pathObstacles[1])
     /\ Len(wayPoints(pathOut.pathString)) = 1)
    => LET w == lastPoint(wayPoints(pathOut.pathString))
       IN  /\ ~passesThrough(pathStart.x, pathStart.y, w.x, w.y, pathObstacles[1])
           /\ ~passesThrough(w.x, w.y, pathEnd.x, pathEnd.y, pathObstacles[1])

\* vector (ux, uy) is parallel to vector (vx, vy) and points the same way
\* (coordinates taken in tenths of a unit)
sameHeading(ux, uy, vx, vy) ==
    LET a == ux \div 100
        b == uy \div 100
        c == vx \div 100
        d == vy \div 100
    IN  /\ a * d - b * c = 0
        /\ a * c + b * d > 0

\* C30: for routed polylines with at least one obstacle the heads are aligned
\* with the path's end segments for any number of inserted waypoints: the end
\* head's direction vector (end - control anchor) is parallel to the last
\* segment (last waypoint -> end), and the start head's direction vector is
\* parallel to the first segment (start -> first waypoint), reversed.
C30_HeadsAlongEndSegments ==
    (Routed /\ Len(wayPoints(pathOut.pathString)) >= 1) =>
        LET first == firstPoint(wayPoints(pathOut.pathString))
            last == lastPoint(wayPoints(pathOut.pathString))
        IN  /\ sameHeading(pathEnd.x - pathOut.control2X, pathEnd.y - pathOut.control2Y,
                            pathEnd.x - last.x, pathEnd.y - last.y)
            \* the start head points along -(control anchor - start)
            /\ sameHeading(-(pathOut.control2X - pathStart.x),
                            -(pathOut.control2Y - pathStart.y),
                            -(first.x - pathStart.x), -(first.y - pathStart.y))

(***************************************************************************)
(* Claims about the anchor resolver (checked under SpecDock)               *)
(***************************************************************************)
\* the dock table as claim C9 states it, on a container-relative rect
C9_Table(x, y, w, h, position) ==
    CASE position \in {"top", "top-center", "middle-top", "center-top"} ->
           [x |-> x + Times(w, 1, 2), y |-> y - 5 * Scale]
      [] position \in {"bottom", "bottom-center", "middle-bottom", "center-bottom"} ->
           [x |-> x + Times(w, 1, 2), y |-> y + h + 5 * Scale]
      [] position \in {"left", "left-center", "middle-left", "center-left"} ->
           [x |-> x - 5 * Scale, y |-> y + Times(h, 1, 2)]
      [] position \in {"right", "right-center", "middle-right", "center-right"} ->
           [x |-> x + w + 5 * Scale, y |-> y + Times(h, 1, 2)]
      [] position = "top-left" -> [x |-> x, y |-> y]
      [] position = "top-right" -> [x |-> x + w, y |-> y]
      [] position = "bottom-left" -> [x |-> x, y |-> y + h]
      [] position = "bottom-right" -> [x |-> x + w, y |-> y + h]
      [] position = "center" -> [x |-> x + Times(w, 1, 2), y |-> y + Times(h, 1, 2)]

\* C9: every edge dock and every edge-centre name resolves to the midpoint of
\* the named edge moved 5 units outward, every corner dock to the corner, and
\* center to the centroid.
C9_DockTable ==
    (dockOut # NoValue /\ dockIn.containerRect # NoValue) =>
        dockOut = C9_Table(dockIn.rect.left - dockIn.containerRect.left,
                           dockIn.rect.top - dockIn.containerRect.top,
                           dockIn.rect.width, dockIn.rect.height, dockIn.position)


(***************************************************************************)
(* Geometry update scheduler: updateCoordinates, the prop effect           *)
(* (lines 841-843) and the observer effect (lines 849-876), for one        *)
(* mounted CurvedArrow.                                                    *)
(*                                                                         *)
(* JavaScript runs each callback to completion, so handlers are atomic     *)
(* actions.  updateCoordinates alone is taken in two steps, entry (guard   *)
(* and flag, lines 774-775) and body (lines 776-823), so that the window   *)
(* in which isUpdatingRef.current is true is a state of the model; while   *)
(* it is in flight only its body or a nested call can run.                 *)
(*                                                                         *)
(* React: setCoordinates(updater) applies updaters in call order, so the   *)
(* committed value is updated when the call is made; on an unmounted       *)
(* component it has no effect.  An effect's cleanup and re-run happen      *)
(* together in the commit of the render that changed its dependencies.     *)
(***************************************************************************)
BothResolve == elems.start = "el" /\ elems.end = "el"

ElemStates == { "none", "null", "el" }
StartPositions == { "center", "right" }

\* the props a render can have (a closure of updateCoordinates is the props it
\* was created with).  The parent varies startX only while it positions the
\* arrow by direct coordinates.
PropValues(el) ==
    [startPosition : StartPositions,
     obstacleCount : 0..MaxObstacleRefs,
     startX : IF el.start = "el" /\ el.end = "el" THEN {0} ELSE {0, Scale \div 4}]

\* props the model keeps fixed: endPosition, and startY / endX / endY at their
\* defaults
endPosition == "left"
directStartY == 0
directEndX == 100 * Scale
directEndY == 100 * Scale

\* getBoundingClientRect() of the tracked entities and of the container
containerRect ==
    IF phase = "unmounted" THEN NoValue      \* containerRef.current is null
    ELSE [left |-> 8 * Scale, top |-> 8 * Scale]
startRect ==
    [left |-> 18 * Scale, top |-> 28 * Scale,
     width |-> 40 * Scale + layout.startGrow * (Scale \div 2), height |-> 20 * Scale]
endRect ==
    [left |-> 168 * Scale, top |-> 108 * Scale, width |-> 40 * Scale, height |-> 20 * Scale]
obstacleRect(i) ==
    [left |-> (58 + 40 * i + 10 * layout.obstacleAt) * Scale, top |-> 58 * Scale,
     width |-> 20 * Scale, height |-> 20 * Scale]

\* the obstacle loop of updateCoordinates (every obstacle ref resolves)
measureObstacles(c) ==
    [i \in 1..c.obstacleCount |->
        [x |-> obstacleRect(i).left - containerRect.left,
         y |-> obstacleRect(i).top - containerRect.top,
         width |-> obstacleRect(i).width,
         height |-> obstacleRect(i).height]]

\* the values updateCoordinates hands to setCoordinates: anchors from the
\* entities when both refs and the container resolve, else the direct props
measure(c) ==
    IF elems.start = "el" /\ elems.end = "el" /\ containerRect # NoValue
    THEN LET sp == calculatePosition(startRect, containerRect, c.startPosition)
             ep == calculatePosition(endRect, containerRect, endPosition)
         IN  [mode |-> "element", startX |-> sp.x, startY |-> sp.y,
              endX |-> ep.x, endY |-> ep.y, obstacleRects |-> measureObstacles(c)]
    ELSE [mode |-> "direct", startX |-> c.startX, startY |-> directStartY,
          endX |-> directEndX, endY |-> directEndY, obstacleRects |-> << >>]

\* `same` with a tolerance of 5 in place of 0.5
sameLoose(prev, m) ==
    /\ Abs(prev.startX - m.startX) < 5 * Scale
    /\ Abs(prev.startY - m.startY) < 5 * Scale
    /\ Abs(prev.endX - m.endX) < 5 * Scale
    /\ Abs(prev.endY - m.endY) < 5 * Scale
    /\ Len(prev.obstacleRects) = Len(m.obstacleRects)

\* `same` with the comparisons made exact
sameExact(prev, m) ==
    /\ prev.startX = m.startX
    /\ prev.startY = m.startY
    /\ prev.endX = m.endX
    /\ prev.endY = m.endY
    /\ Len(prev.obstacleRects) = Len(m.obstacleRects)

\* const same = ... (both branches; in the direct branch the new list is empty)
same(prev, m) ==
    /\ Abs(prev.startX - m.startX) < Scale \div 2
    /\ Abs(prev.startY - m.startY) < Scale \div 2
    /\ Abs(prev.endX - m.endX) < Scale \div 2
    /\ Abs(prev.endY - m.endY) < Scale \div 2
    /\ Len(prev.obstacleRects) = Len(m.obstacleRects)

\* the updater passed to setCoordinates: prev itself, or a new object
setCoordinates(prev, m) ==
    IF same(prev, m) THEN prev
    ELSE [startX |-> m.startX, startY |-> m.startY, endX |-> m.endX, endY |-> m.endY,
          obstacleRects |-> m.obstacleRects, id |-> 1 - prev.id]

\* the guard with the test left out
reentrantNever(flag) == FALSE

\* if (isUpdatingRef.current) return
reentrant(flag) == flag

\* a call of updateCoordinates, closure c: the guard and the flag
callUpdate(c) ==
    IF reentrant(isUpdating)
    THEN /\ lastEvent' = "ignored"
         /\ UNCHANGED <<isUpdating, stack>>
    ELSE /\ isUpdating' = TRUE
         /\ stack' = <<c>> \o stack
         /\ lastEvent' = "begin"

Quiet == stack = << >> /\ frameBatch = << >>

Init ==
    /\ phase = "constructed"
    /\ elems \in [start : ElemStates, end : ElemStates]
    /\ props = [startPosition |-> "center", obstacleCount |-> 0, startX |-> 0]
    /\ layout = [startGrow |-> 0, obstacleAt |-> 0]
    /\ coordinates = [startX |-> props.startX, startY |-> directStartY,
                      endX |-> directEndX, endY |-> directEndY,
                      obstacleRects |-> << >>, id |-> 0]
    /\ isUpdating = FALSE
    /\ stack = << >>
    /\ subscribed = NoValue
    /\ rafQueue = << >>
    /\ frameBatch = << >>
    /\ frameRuns = 0
    /\ lastEvent = "none"
    /\ dockIn = NoValue
    /\ dockOut = NoValue
    /\ pathIn = NoValue
    /\ pathOut = NoValue
    /\ renderIn = NoValue
    /\ renderOut = NoValue
    /\ headIn = NoValue
    /\ headOut = NoValue

\* the effects of the first commit: the prop effect calls updateCoordinates,
\* the observer effect subscribes when both refs resolve
Mount ==
    /\ phase = "constructed"
    /\ phase' = "mounted"
    /\ callUpdate(props)
    /\ subscribed' = IF BothResolve THEN props ELSE NoValue
    /\ UNCHANGED <<elems, props, layout, coordinates, rafQueue, frameBatch, frameRuns,
                   dockVars, pathVars, layerVars, headVars>>

\* the body of updateCoordinates, from `try` to `finally`
CompleteUpdate ==
    /\ stack # << >>
    /\ LET m == measure(Head(stack))
       IN  /\ coordinates' = IF phase = "mounted"
                             THEN setCoordinates(coordinates, m)
                             ELSE coordinates
           /\ lastEvent' = IF phase # "mounted" THEN "dropped"
                           ELSE IF same(coordinates, m) THEN "kept" ELSE "committed"
    /\ isUpdating' = FALSE
    /\ stack' = Tail(stack)
    /\ UNCHANGED <<phase, elems, props, layout, subscribed, rafQueue, frameBatch,
                   frameRuns, dockVars, pathVars, layerVars, headVars>>

\* a call of updateCoordinates made while one is in flight
NestedCall ==
    /\ stack # << >>
    /\ callUpdate(Head(stack))
    /\ UNCHANGED <<phase, elems, props, layout, coordinates, subscribed, rafQueue,
                   frameBatch, frameRuns, dockVars, pathVars, layerVars, headVars>>

\* requestAnimationFrame(updateCoordinates), from a connected observer or listener
schedule ==
    /\ phase = "mounted"
    /\ subscribed # NoValue
    /\ Quiet
    /\ Len(rafQueue) < MaxQueue
    /\ rafQueue' = Append(rafQueue, subscribed)
    /\ lastEvent' = "scheduled"
    /\ UNCHANGED <<phase, elems, props, coordinates, isUpdating, stack, subscribed,
                   frameBatch, frameRuns, dockVars, pathVars, layerVars, headVars>>

\* the start entity is resized: the ResizeObserver callback
EntityResize ==
    /\ \E g \in (0..MaxGrow) \ {layout.startGrow} :
          layout' = [layout EXCEPT !.startGrow = g]
    /\ schedule

\* an observed subtree is mutated (an observed obstacle may move with it): the
\* MutationObserver callback
SubtreeMutation ==
    /\ \E a \in 0..1 :
          /\ props.obstacleCount = 0 => a = layout.obstacleAt
          /\ layout' = [layout EXCEPT !.obstacleAt = a]
    /\ schedule

\* window "resize" listener
WindowResize ==
    /\ UNCHANGED layout
    /\ schedule

\* window "scroll" listener (the viewport offsets of entity and container cancel)
WindowScroll ==
    /\ UNCHANGED layout
    /\ schedule

\* the browser starts an animation frame: the callbacks scheduled so far are
\* the ones it will run
AnimationFrame ==
    /\ Quiet
    /\ rafQueue # << >>
    /\ frameBatch' = rafQueue
    /\ rafQueue' = << >>
    /\ frameRuns' = 0
    /\ lastEvent' = "frame"
    /\ UNCHANGED <<phase, elems, props, layout, coordinates, isUpdating, stack,
                   subscribed, dockVars, pathVars, layerVars, headVars>>

\* the frame calls its next callback
FrameCallback ==
    /\ stack = << >>
    /\ frameBatch # << >>
    /\ frameBatch' = Tail(frameBatch)
    /\ callUpdate(Head(frameBatch))
    /\ frameRuns' = IF reentrant(isUpdating) THEN frameRuns ELSE frameRuns + 1
    /\ UNCHANGED <<phase, elems, props, layout, coordinates, subscribed, rafQueue,
                   dockVars, pathVars, layerVars, headVars>>

\* the parent renders the arrow with other props: the observer effect is
\* cleaned up and run again, the prop effect calls updateCoordinates.  (The
\* parent does so at most once while frame callbacks are pending: the pending
\* callbacks are of one earlier render at most.)
PropsChange ==
    /\ phase = "mounted"
    /\ Quiet
    /\ \A i \in 1..Len(rafQueue) : rafQueue[i] = props
    /\ \E new \in PropValues(elems) \ {props} :
          /\ props' = new
          /\ subscribed' = IF BothResolve THEN new ELSE NoValue
          /\ callUpdate(new)
    /\ UNCHANGED <<phase, elems, layout, coordinates, rafQueue, frameBatch, frameRuns,
                   dockVars, pathVars, layerVars, headVars>>

\* the arrow is unmounted: the observer effect's cleanup (lines 870-875)
Unmount ==
    /\ phase = "mounted"
    /\ Quiet
    /\ phase' = "unmounted"
    /\ subscribed' = NoValue
    /\ lastEvent' = "unmount"
    /\ UNCHANGED <<elems, props, layout, coordinates, isUpdating, stack, rafQueue,
                   frameBatch, frameRuns, dockVars, pathVars, layerVars, headVars>>

Next ==
    \/ Mount
    \/ CompleteUpdate
    \/ NestedCall
    \/ EntityResize
    \/ SubtreeMutation
    \/ WindowResize
    \/ WindowScroll
    \/ AnimationFrame
    \/ FrameCallback
    \/ PropsChange
    \/ Unmount

Spec == Init /\ [][Next]_vars

(***************************************************************************)
(* Layer compositor: which layer draws what (renderSVG)                    *)
(***************************************************************************)
Layers == { "under", "over" }

\* showLineOnLayer with the main path on both layers
showLineOnLayerBoth(layer) == TRUE

\* const showLineOnLayer = layer === "under"
showLineOnLayer(layer) == layer = "under"

\* const showStartOnLayer = !!startHeadPath && startHeadLayer === layer
\* (startHeadPath is falsy exactly when showStartArrow is false)
showStartOnLayer(layer, showStartArrow, startHeadLayer) ==
    showStartArrow /\ startHeadLayer = layer

\* const showEndOnLayer = !!endHeadPath && endHeadLayer === layer
showEndOnLayer(layer, showEndArrow, endHeadLayer) ==
    showEndArrow /\ endHeadLayer = layer

\* the variants the model renders, and the ones that get the glow path
Variants == { "default", "glow" }
GlowVariants == { "glow", "neon", "fire", "electric", "cosmic" }

\* the <path> elements renderSVG can return, in document (paint) order
PathElements ==
    << "glow", "line", "dash", "startHead", "endHead", "startOverlay", "endOverlay" >>

\* the JSX condition in front of each <path> of renderSVG(layer)
drawnOnLayer(layer, p, e) ==
    CASE e = "glow" -> showLineOnLayer(layer) /\ p.variant \in GlowVariants
      [] e = "line" -> showLineOnLayer(layer)
      [] e = "dash" -> showLineOnLayer(layer) /\ p.animated
      [] e = "startHead" -> showStartOnLayer(layer, p.showStartArrow, p.startHeadLayer)
      [] e = "endHead" -> showEndOnLayer(layer, p.showEndArrow, p.endHeadLayer)
      [] e = "startOverlay" ->
           showStartOnLayer(layer, p.showStartArrow, p.startHeadLayer) /\ p.startLineOverHead
      [] e = "endOverlay" ->
           showEndOnLayer(layer, p.showEndArrow, p.endHeadLayer) /\ p.endLineOverHead

\* renderSVG(layer): the <path> elements of the layer's <svg>, in order
renderSVG(layer, p) ==
    LET drawn(e) == drawnOnLayer(layer, p, e)
    IN  SelectSeq(PathElements, drawn)

\* containerZIndex with one level for both containers
containerZIndexFlat(layer) == 2

\* style={{ zIndex: 2 }} on the UNDER container, style={{ zIndex: 4 }} on the
\* OVER container
containerZIndex(layer) == IF layer = "under" THEN 2 ELSE 4

\* a prop the caller does not pass
Undefined == "undefined"

\* a destructured prop with its default: `name = value`
withDefault(v, d) == IF v = Undefined THEN d ELSE v

\* the colour props as the component body sees them (lines 633-635)
color(p) == withDefault(p.color, "#852DEE")
gradientFrom(p) == withDefault(p.gradientFrom, "#ffffff")
gradientTo(p) == withDefault(p.gradientTo, "#852DEE")

\* const hasGradient = !!(gradientFrom && gradientTo)
hasGradient(p) == gradientFrom(p) # "" /\ gradientTo(p) # ""

\* const gid = `${gradientIdBase}-${layer}`, as the paint `url(#${gid})`
gradientPaint(layer) == IF layer = "under" THEN "url(#grad-under)" ELSE "url(#grad-over)"

\* const defaultStroke = hasGradient ? `url(#${gid})` : color
defaultStroke(layer, p) == IF hasGradient(p) THEN gradientPaint(layer) ELSE color(p)

\* const sStroke = startArrowStrokeColor ?? defaultStroke
sStroke(layer, p) == withDefault(p.startArrowStrokeColor, defaultStroke(layer, p))
\* const eStroke = endArrowStrokeColor ?? defaultStroke
eStroke(layer, p) == withDefault(p.endArrowStrokeColor, defaultStroke(layer, p))

\* the stroke attribute of the layer's main path, head and overlay elements
strokes(layer, p) ==
    [line |-> defaultStroke(layer, p),
     startHead |-> sStroke(layer, p),
     endHead |-> eStroke(layer, p)]

(***************************************************************************)
(* The layer compositor taken alone: one render on props drawn from        *)
(* their types.                                                            *)
(***************************************************************************)
LayerInit ==
    /\ renderIn \in [showStartArrow : BOOLEAN, showEndArrow : BOOLEAN,
                      startHeadLayer : Layers, endHeadLayer : Layers,
                      startLineOverHead : BOOLEAN, endLineOverHead : BOOLEAN,
                      animated : BOOLEAN, variant : Variants,
                      color : {Undefined, "#FF5733"},
                      gradientFrom : {Undefined, "#0000ff"},
                      gradientTo : {Undefined, "", "#00ff00"},
                      startArrowStrokeColor : {Undefined, "#000000"},
                      endArrowStrokeColor : {Undefined, "#000000"}]
    /\ renderOut = NoValue
    /\ headIn = NoValue
    /\ headOut = NoValue
    /\ dockIn = NoValue
    /\ dockOut = NoValue
    /\ pathIn = NoValue
    /\ pathOut = NoValue
    /\ phase = "off"
    /\ elems = NoValue
    /\ props = NoValue
    /\ layout = NoValue
    /\ coordinates = NoValue
    /\ isUpdating = FALSE
    /\ stack = << >>
    /\ subscribed = NoValue
    /\ rafQueue = << >>
    /\ frameBatch = << >>
    /\ frameRuns = 0
    /\ lastEvent = "none"

\* the component's return: the UNDER and the OVER container
RenderLayers ==
    /\ renderIn # NoValue
    /\ renderOut = NoValue
    /\ renderOut' = [layer \in Layers |->
                       [zIndex |-> containerZIndex(layer),
                        svg |-> renderSVG(layer, renderIn),
                        stroke |-> strokes(layer, renderIn)]]
    /\ UNCHANGED <<renderIn, dockVars, pathVars, headVars, schedVars>>

SpecLayer == LayerInit /\ [][RenderLayers]_vars

(***************************************************************************)
(* Arrowhead generator: createArrowHead                                    *)
(*                                                                         *)
(* A glyph is modelled as the sequence of the subpaths of the returned     *)
(* path string (one per `M`): the figure the subpath traces, whether it    *)
(* returns to its first point, and its extent, the factor of `size` its    *)
(* points are placed at.  The position and the angle of the glyph are      *)
(* left out.                                                               *)
(***************************************************************************)
ArrowShapes ==
    { "triangle", "circle", "square", "diamond", "star", "heart", "cross", "plus",
      "chevron", "double-chevron", "arrow",
      "hollow-triangle", "hollow-circle", "hollow-square", "hollow-diamond",
      "filled-circle", "filled-square", "filled-diamond", "filled-triangle",
      "line", "dot", "dash" }

HeadSizes == { 10 * Scale, 20 * Scale, 30 * Scale }

Contour(f, c, e) == [figure |-> f, closed |-> c, extent |-> e]

\* the fallback of createArrowHead: two barbs from the tip
openTriangle(size) ==
    << Contour("barb", FALSE, size), Contour("barb", FALSE, size) >>

\* case "hollow-circle": the circle of radius size and one of radius size * 0.6
hollowCircle(size) ==
    << Contour("circle", TRUE, size), Contour("circle", TRUE, Times(size, 6, 10)) >>

createArrowHead(size, shape, forceFilled) ==
    IF forceFilled /\ shape \in {"triangle", "arrow", "hollow-triangle"}
    THEN << Contour("triangle", TRUE, size) >>
    ELSE CASE shape \in {"triangle", "arrow"} -> openTriangle(size)
           [] shape = "filled-triangle" -> << Contour("triangle", TRUE, size) >>
           [] shape \in {"circle", "filled-circle"} -> << Contour("circle", TRUE, size) >>
           [] shape = "hollow-circle" -> hollowCircle(size)
           [] shape \in {"square", "filled-square"} ->
                << Contour("square", TRUE, Times(size, 7, 10)) >>
           [] shape \in {"diamond", "filled-diamond"} ->
                << Contour("diamond", TRUE, Times(size, 8, 10)) >>
           [] shape = "star" -> << Contour("star", TRUE, size) >>
           [] shape = "heart" -> << Contour("heart", TRUE, Times(size, 6, 10)) >>
           [] shape \in {"cross", "plus"} ->
                << Contour("stroke", FALSE, Times(size, 8, 10)),
                   Contour("stroke", FALSE, Times(size, 8, 10)) >>
           [] shape = "chevron" -> << Contour("chevron", FALSE, Times(size, 8, 10)) >>
           [] shape = "double-chevron" ->
                << Contour("chevron", FALSE, Times(size, 6, 10)),
                   Contour("chevron", FALSE, Times(Times(size, 6, 10), 16, 10)) >>
           [] shape = "line" -> << Contour("stroke", FALSE, Times(size, 8, 10)) >>
           [] shape = "dot" -> << Contour("circle", TRUE, Times(size, 3, 10)) >>
           [] shape = "dash" -> << Contour("stroke", FALSE, Times(size, 6, 10)) >>
           [] OTHER -> openTriangle(size)

(***************************************************************************)
(* The arrowhead generator taken alone: one createArrowHead call.          *)
(***************************************************************************)
HeadInit ==
    /\ headIn \in [size : HeadSizes, shape : ArrowShapes, forceFilled : BOOLEAN]
    /\ headOut = NoValue
    /\ renderIn = NoValue
    /\ renderOut = NoValue
    /\ dockIn = NoValue
    /\ dockOut = NoValue
    /\ pathIn = NoValue
    /\ pathOut = NoValue
    /\ phase = "off"
    /\ elems = NoValue
    /\ props = NoValue
    /\ layout = NoValue
    /\ coordinates = NoValue
    /\ isUpdating = FALSE
    /\ stack = << >>
    /\ subscribed = NoValue
    /\ rafQueue = << >>
    /\ frameBatch = << >>
    /\ frameRuns = 0
    /\ lastEvent = "none"

DrawHead ==
    /\ headIn # NoValue
    /\ headOut = NoValue
    /\ headOut' = [d |-> createArrowHead(headIn.size, headIn.shape, headIn.forceFilled)]
    /\ UNCHANGED <<headIn, dockVars, pathVars, layerVars, schedVars>>

SpecHead == HeadInit /\ [][DrawHead]_vars

(***************************************************************************)
(* Claims about the scheduler (checked under Spec)                         *)
(***************************************************************************)
\* a step that is the body of updateCoordinates
CompleteStep == stack # << >> /\ stack' = Tail(stack)

\* every start/end coordinate of m is less than 0.5 from the one of prev
Within(prev, m) ==
    \A f \in {"startX", "startY", "endX", "endY"} : 2 * Abs(prev[f] - m[f]) < Scale

\* C2: triggers are coalesced per animation frame: however many triggers
\* arrive before a frame, updateCoordinates runs once in that frame.
C2_OneRunPerFrame == frameRuns <= 1

\* C3: after teardown (the observer effect's cleanup on unmount) no
\* recomputation fires: updateCoordinates is not executed and the committed
\* state is not written, also for frame callbacks scheduled before teardown.
C3_NoRunAfterTeardown ==
    phase = "unmounted" =>
        /\ stack = << >>
        /\ lastEvent \notin {"begin", "kept", "committed", "dropped"}

\* C4: when a recomputation yields start and end coordinates each less than
\* 0.5 from the committed ones and the same obstacle count, the committed
\* state object is left untouched (the same object), in element mode and in
\* direct-coordinate mode.
C4_ToleranceSuppression ==
    [][ CompleteStep =>
          LET m == measure(Head(stack))
          IN  (Within(coordinates, m)
                 /\ Len(coordinates.obstacleRects) = Len(m.obstacleRects))
              => coordinates' = coordinates ]_vars

\* a recomputation in element mode has just been discarded although the
\* measured start anchor differs from the committed one
C4_Witness ==
    /\ phase = "mounted"
    /\ lastEvent = "kept"
    /\ rafQueue = << >>
    /\ LET m == measure(props)
       IN  /\ m.mode = "element"
           /\ m.startX # coordinates.startX
           /\ Within(coordinates, m)

\* C5: a recomputation is discarded only if every coordinate delta against
\* the committed {start, end, obstacleRects} is below 0.5 and the obstacle
\* count is unchanged: when it runs after an obstacle rect moved by 0.5 or
\* more (same count, start and end unchanged) the new rects are committed.
C5_ObstacleMoveCommitted ==
    [][ (CompleteStep /\ phase = "mounted") =>
          LET m == measure(Head(stack))
              prev == coordinates.obstacleRects
          IN  (/\ m.mode = "element"
               /\ m.startX = coordinates.startX /\ m.startY = coordinates.startY
               /\ m.endX = coordinates.endX /\ m.endY = coordinates.endY
               /\ Len(prev) = Len(m.obstacleRects)
               /\ \E i \in 1..Len(prev) : \E f \in {"x", "y", "width", "height"} :
                     2 * Abs(prev[i][f] - m.obstacleRects[i][f]) >= Scale)
              => coordinates'.obstacleRects = m.obstacleRects ]_vars

\* C6: recomputations never overlap: at most one updateCoordinates run is in
\* flight, and a call made while one is in flight returns at once, starting
\* no run (so reading no geometry) and leaving the committed state alone.
C6_NoOverlap ==
    [][ /\ Len(stack') <= 1
        /\ (stack # << >> /\ ~CompleteStep) =>
              /\ stack' = stack
              /\ isUpdating' = isUpdating
              /\ coordinates' = coordinates ]_vars

\* a call has just been turned away by the guard while a run is in flight
C6_Witness ==
    /\ lastEvent = "ignored"
    /\ Len(stack) = 1
    /\ isUpdating

\* C7: when exactly one tracked entity's ref does not resolve, nothing is
\* rendered for that endpoint after the recomputation: no layer draws the
\* line that runs to it, and no layer draws a head at it, whatever the head
\* props.
C7_MissingEntity ==
    (/\ phase = "mounted"
     /\ lastEvent \in {"kept", "committed"}
     /\ {elems.start, elems.end} = {"el", "null"})
    => /\ \A layer \in Layers : ~showLineOnLayer(layer)
       /\ \A layer \in Layers, show \in BOOLEAN, headLayer \in Layers :
             /\ elems.start = "null" => ~showStartOnLayer(layer, show, headLayer)
             /\ elems.end = "null" => ~showEndOnLayer(layer, show, headLayer)

\* n is less than 0.5 from a
Near(n, a) == 2 * Abs(n - a) < Scale

\* C8: when startElement resolves, the committed start anchor is the one
\* computed from that element's rect and startPosition (startX/startY are
\* ignored) whether or not endElement is provided; symmetrically for the end.
C8_ElementOverridesCoords ==
    [][ (CompleteStep /\ phase = "mounted") =>
          LET c == Head(stack)
              sp == calculatePosition(startRect, containerRect, c.startPosition)
              ep == calculatePosition(endRect, containerRect, endPosition)
          IN  /\ elems.start = "el" =>
                    Near(coordinates'.startX, sp.x) /\ Near(coordinates'.startY, sp.y)
              /\ elems.end = "el" =>
                    Near(coordinates'.endX, ep.x) /\ Near(coordinates'.endY, ep.y) ]_vars


\* C27: no drift: in element mode, after any sequence of recomputations,
\* immediately after each recomputation completes every committed start/end
\* coordinate differs from the coordinate just resolved by less than 0.5
\* (sub-tolerance movements do not accumulate).
C27_NoDrift ==
    [][ (CompleteStep /\ phase = "mounted") =>
          LET m == measure(Head(stack))
          IN  m.mode = "element" => Within(coordinates', m) ]_vars

\* the start entity has grown until its anchor is a full 0.5 away from the
\* one first committed, and the recomputation has committed the new anchor
C27_Witness ==
    /\ phase = "mounted"
    /\ lastEvent = "committed"
    /\ Quiet
    /\ rafQueue = << >>
    /\ layout.startGrow = 2
    /\ props.startPosition = "center"
    /\ measure(props).mode = "element"
    /\ coordinates.startX = measure(props).startX

\* C28: no stale commit: in element mode, for every interleaving of
\* triggers, animation frames and prop changes, once all scheduled frame
\* callbacks have run the committed anchors are within 0.5 of the anchors
\* resolved with the current props: a frame callback scheduled before a prop
\* change does not overwrite the snapshot committed for the new props.
C28_NoStaleCommit ==
    (/\ phase = "mounted"
     /\ BothResolve
     /\ Quiet
     /\ rafQueue = << >>
     /\ lastEvent \in {"kept", "committed"})
    => Within(coordinates, measure(props))

(***************************************************************************)
(* Claims about the layer compositor (checked under SpecLayer)             *)
(***************************************************************************)
\* element e is among the <path> elements of the layer's <svg>
DrawnIn(layer, e) ==
    \E k \in 1..Len(renderOut[layer].svg) : renderOut[layer].svg[k] = e

\* C18: for every configuration the main path is drawn in the under layer
\* and never in the over layer; a head that is shown is drawn in exactly one
\* layer, the one its layer assignment names; a head that is not shown is
\* drawn in neither layer.
C18_LayerPlacement ==
    renderOut # NoValue =>
        /\ DrawnIn("under", "line")
        /\ ~DrawnIn("over", "line")
        /\ \A layer \in Layers :
              /\ DrawnIn(layer, "startHead") <=>
                    (renderIn.showStartArrow /\ renderIn.startHeadLayer = layer)
              /\ DrawnIn(layer, "endHead") <=>
                    (renderIn.showEndArrow /\ renderIn.endHeadLayer = layer)

\* a render with the start head shown under, the end head shown over
C18_Witness ==
    /\ renderOut # NoValue
    /\ renderIn.showStartArrow /\ renderIn.startHeadLayer = "under"
    /\ renderIn.showEndArrow /\ renderIn.endHeadLayer = "over"
    /\ DrawnIn("under", "startHead")
    /\ DrawnIn("over", "endHead")

\* C19: for every combination of props the under layer is rendered at
\* stacking level 2 and the over layer at level 4, so under-tier content (1)
\* < under layer < over layer < over-tier content (5).
C19_ZOrder ==
    renderOut # NoValue =>
        /\ renderOut["under"].zIndex = 2
        /\ renderOut["over"].zIndex = 4
        /\ 1 < renderOut["under"].zIndex
        /\ renderOut["under"].zIndex < renderOut["over"].zIndex
        /\ renderOut["over"].zIndex < 5

\* a render of a glowing variant with both heads moved to the under layer
C19_Witness ==
    /\ renderOut # NoValue
    /\ renderIn.variant = "glow"
    /\ renderIn.showStartArrow /\ renderIn.startHeadLayer = "under"
    /\ renderIn.showEndArrow /\ renderIn.endHeadLayer = "under"
    /\ renderOut["over"].svg = << >>

\* C20: the short overlay segment of an end is drawn if and only if that
\* end's lineOverHead flag is true and its head is shown on the same layer as
\* the main line; it is never drawn when the head sits on a layer that does
\* not contain the main line.
C20_OverlayOnLineLayer ==
    renderOut # NoValue =>
        \A layer \in Layers :
            /\ DrawnIn(layer, "startOverlay") <=>
                  (/\ renderIn.startLineOverHead
                   /\ DrawnIn(layer, "startHead")
                   /\ DrawnIn(layer, "line"))
            /\ DrawnIn(layer, "endOverlay") <=>
                  (/\ renderIn.endLineOverHead
                   /\ DrawnIn(layer, "endHead")
                   /\ DrawnIn(layer, "line"))

\* C22: when the caller sets color and passes neither gradientFrom nor
\* gradientTo, the main path and the heads (absent per-head overrides) are
\* stroked with that solid color; the gradient is used only when the caller
\* sets both gradientFrom and gradientTo.
C22_SolidColorWithoutGradient ==
    renderOut # NoValue =>
        \A layer \in Layers :
            /\ (/\ renderIn.color # Undefined
                /\ renderIn.gradientFrom = Undefined
                /\ renderIn.gradientTo = Undefined)
               => /\ renderOut[layer].stroke.line = renderIn.color
                  /\ renderIn.startArrowStrokeColor = Undefined =>
                        renderOut[layer].stroke.startHead = renderIn.color
                  /\ renderIn.endArrowStrokeColor = Undefined =>
                        renderOut[layer].stroke.endHead = renderIn.color
            /\ renderOut[layer].stroke.line = gradientPaint(layer) =>
                  /\ renderIn.gradientFrom # Undefined
                  /\ renderIn.gradientTo # Undefined

(***************************************************************************)
(* Claims about the arrowhead generator (checked under SpecHead)           *)
(***************************************************************************)
\* the figure a hollow-* shape names
hollowFigure(shape) ==
    CASE shape = "hollow-triangle" -> "triangle"
      [] shape = "hollow-circle" -> "circle"
      [] shape = "hollow-square" -> "square"
      [] shape = "hollow-diamond" -> "diamond"

\* C21: every hollow-* head shape (hollow-triangle, hollow-circle,
\* hollow-square, hollow-diamond) with forceFilled = false produces an
\* outline glyph made of an outer contour plus a smaller inner contour of the
\* same shape.
C21_HollowOutline ==
    (/\ headOut # NoValue
     /\ headIn.shape \in {"hollow-triangle", "hollow-circle", "hollow-square",
                          "hollow-diamond"}
     /\ ~headIn.forceFilled)
    => /\ Len(headOut.d) = 2
       /\ \A k \in 1..2 : /\ headOut.d[k].figure = hollowFigure(headIn.shape)
                            /\ headOut.d[k].closed
       /\ headOut.d[2].extent < headOut.d[1].extent

=============================================================================
